---- MODULE Spec2Model ----
(***************************************************************************)
(* Model of the Magazine note store (src/magazine/magazine.py): the        *)
(* class-level collections topics, figures, references and dois, the       *)
(* static operations on them, and the reporting decorator.                 *)
(*                                                                         *)
(* Text is a sequence of one-character strings, so that joining,           *)
(* formatting, matching and sorting are computed character by character.   *)
(***************************************************************************)
EXTENDS Integers, Sequences, FiniteSets, TLC

VARIABLES
    topics,         \* Magazine.topics: topic -> list of notes
    figures,        \* Magazine.figures: topic -> list of figure handles
    references,     \* Magazine.references
    dois,           \* Magazine.dois
    parameters,     \* self.parameters of each reporting instance, by function name
    func_globals,   \* the globals of the decorated functions' module
    ret,            \* the last call: operation, arguments and how it ended
    requests,       \* the lookups the last call sent to the service
    answers,        \* what the service answered to them
    invoked,        \* how often the last wrapper call ran the function body
    reported,       \* history: the text reports that returned since the last clean
    cited,          \* history: the strings cited since the last clean, a text
                    \* with the number of times it was cited, an identifier
                    \* with 1 (cited once) or 2 (cited repeatedly)
    supplied        \* history: the keyword names each decorated function has
                    \* been called with

vars == <<topics, figures, references, dois, parameters, func_globals, ret,
          requests, answers, invoked, reported, cited, supplied>>

store == <<topics, figures, references, dois>>

(***************************************************************************)
(* Bounds of the model.                                                    *)
(***************************************************************************)
MaxNotes == 2
MaxFigs == 2
MaxRefs == 3
MaxDois == 3

(***************************************************************************)
(* Text helpers.                                                           *)
(***************************************************************************)
Digits == {"0", "1", "2", "3", "4", "5", "6", "7", "8", "9"}

\* Code point of a character (the order str comparison and list.sort use).
Ord(c) ==
    CASE c = "\t" -> 9
      [] c = "\n" -> 10
      [] c = " " -> 32
      [] c = "." -> 46
      [] c = "/" -> 47
      [] c = "0" -> 48
      [] c = "1" -> 49
      [] c = "2" -> 50
      [] c = "3" -> 51
      [] c = "4" -> 52
      [] c = "5" -> 53
      [] c = "6" -> 54
      [] c = "7" -> 55
      [] c = "8" -> 56
      [] c = "9" -> 57
      [] c = "A" -> 65
      [] c = "B" -> 66
      [] c = "E" -> 69
      [] c = "Z" -> 90
      [] c = "a" -> 97
      [] c = "b" -> 98
      [] c = "n" -> 110
      [] c = "v" -> 118
      [] c = "x" -> 120
      [] c = "{" -> 123
      [] c = "}" -> 125

\* Python's str < str: lexicographic by code point, a proper prefix is smaller.
RECURSIVE StrLess(_, _)
StrLess(s, t) ==
    IF t = <<>> THEN FALSE
    ELSE IF s = <<>> THEN TRUE
    ELSE IF Ord(Head(s)) < Ord(Head(t)) THEN TRUE
    ELSE IF Ord(Head(s)) > Ord(Head(t)) THEN FALSE
    ELSE StrLess(Tail(s), Tail(t))

\* sep.join(parts)
RECURSIVE Join(_, _)
Join(sep, parts) ==
    IF parts = <<>> THEN <<>>
    ELSE IF Len(parts) = 1 THEN parts[1]
    ELSE parts[1] \o sep \o Join(sep, Tail(parts))

\* list.sort() on a list of str: insertion into the sorted rest.
RECURSIVE InsertSorted(_, _)
InsertSorted(x, sorted) ==
    IF sorted = <<>> THEN <<x>>
    ELSE IF StrLess(Head(sorted), x)
         THEN <<Head(sorted)>> \o InsertSorted(x, Tail(sorted))
         ELSE <<x>> \o sorted

RECURSIVE Sort(_)
Sort(l) ==
    IF l = <<>> THEN <<>>
    ELSE InsertSorted(Head(l), Sort(Tail(l)))

\* str.rstrip(): drop trailing whitespace.
RECURSIVE RStrip(_)
RStrip(s) ==
    IF s = <<>> THEN <<>>
    ELSE IF s[Len(s)] \in {" ", "\n", "\t"} THEN RStrip(SubSeq(s, 1, Len(s) - 1))
    ELSE s

Range(l) == {l[i] : i \in DOMAIN l}

Last(l) == l[Len(l)]

\* str(n) for a non-negative int.
RECURSIVE IntToStr(_)
IntToStr(n) ==
    LET d == <<"0", "1", "2", "3", "4", "5", "6", "7", "8", "9">>[(n % 10) + 1]
    IN IF n < 10 THEN <<d>> ELSE IntToStr(n \div 10) \o <<d>>

\* Position of the first occurrence of character c in s, 0 when absent.
RECURSIVE IndexOf(_, _)
IndexOf(c, s) ==
    IF s = <<>> THEN 0
    ELSE IF Head(s) = c THEN 1
    ELSE LET r == IndexOf(c, Tail(s)) IN IF r = 0 THEN 0 ELSE r + 1

(***************************************************************************)
(* Values a caller can pass: None, an int, a str, a figure handle          *)
(* (io.BytesIO) and the float nan that report() puts in place of None.     *)
(***************************************************************************)
None == [t |-> "none", i |-> 0, s |-> <<>>]
NaN == [t |-> "float", i |-> 0, s |-> <<"n", "a", "n">>]
IntVal(n) == [t |-> "int", i |-> n, s |-> <<>>]
StrVal(s) == [t |-> "str", i |-> 0, s |-> s]
BytesIO(n) == [t |-> "bytesio", i |-> n, s |-> <<>>]

\* isinstance(message, str), isinstance(message, io.BytesIO)
IsStr(v) == v.t = "str"
IsBytesIO(v) == v.t = "bytesio"

(***************************************************************************)
(* message.format of lines 101-102.  A result is either the text or        *)
(* the exception raised.  Replacement fields are "{" name [":" spec] "}"   *)
(* with an empty name (automatic numbering) or a keyword name; the specs   *)
(* computed are the empty one and "d"; "{{" and "}}" are escapes.          *)
(***************************************************************************)
Ok(s) == [ok |-> TRUE, s |-> s, exc |-> "none"]
Raise(e) == [ok |-> FALSE, s |-> <<>>, exc |-> e]

\* text \o the rest of the formatting, unless the rest raised
Then(text, rest) == IF rest.ok THEN Ok(text \o rest.s) ELSE rest

\* format(value, spec)
FormatValue(v, spec) ==
    IF spec = <<>> THEN
        CASE v.t = "int" -> Ok(IntToStr(v.i))
          [] v.t = "none" -> Ok(<<"N", "o", "n", "e">>)
          [] OTHER -> Ok(v.s)
    ELSE IF spec = <<"d">> THEN
        IF v.t = "int" THEN Ok(IntToStr(v.i)) ELSE Raise("ValueError")
    ELSE Raise("ValueError")

RECURSIVE FormatFrom(_, _, _)
FormatFrom(s, values, auto) ==
    IF s = <<>> THEN Ok(<<>>)
    ELSE IF Head(s) = "{" THEN
        IF Len(s) >= 2 /\ s[2] = "{"
        THEN Then(<<"{">>, FormatFrom(SubSeq(s, 3, Len(s)), values, auto))
        ELSE LET close == IndexOf("}", s)
                 field == SubSeq(s, 2, close - 1)
                 colon == IndexOf(":", field)
                 name == IF colon = 0 THEN field ELSE SubSeq(field, 1, colon - 1)
                 spec == IF colon = 0 THEN <<>> ELSE SubSeq(field, colon + 1, Len(field))
             IN IF close = 0 THEN Raise("ValueError")
                ELSE IF name # <<>> THEN Raise("KeyError")
                ELSE IF auto > Len(values) THEN Raise("IndexError")
                ELSE LET one == FormatValue(values[auto], spec)
                     IN IF ~one.ok THEN one
                        ELSE Then(one.s, FormatFrom(SubSeq(s, close + 1, Len(s)),
                                                    values, auto + 1))
    ELSE IF Head(s) = "}" THEN
        IF Len(s) >= 2 /\ s[2] = "}"
        THEN Then(<<"}">>, FormatFrom(SubSeq(s, 3, Len(s)), values, auto))
        ELSE Raise("ValueError")
    ELSE Then(<<Head(s)>>, FormatFrom(Tail(s), values, auto))

Format(s, values) == FormatFrom(s, values, 1)

\* the values passed to format as they are
KeepNone(values) == values

\* [np.nan if v is None else v for v in values], line 101
ReplaceNone(values) == [i \in DOMAIN values |-> IF values[i] = None THEN NaN ELSE values[i]]

\* the pattern with {3,} in place of {4,}
IsDoiThreeDigits(ref) ==
    /\ Len(ref) >= 6
    /\ ref[1] = "1"
    /\ ref[2] = "0"
    /\ ref[3] = "."
    /\ \A i \in 4..6 : ref[i] \in Digits

\* re.search(r"^10[.][0-9]{4,}", ref), lines 130 and 133
IsDoi(ref) ==
    /\ Len(ref) >= 7
    /\ ref[1] = "1"
    /\ ref[2] = "0"
    /\ ref[3] = "."
    /\ \A i \in 4..7 : ref[i] \in Digits

(***************************************************************************)
(* The store: the four class attributes of Magazine, lines 45-48.  A dict  *)
(* is a function on its key set, a list is a sequence.                     *)
(***************************************************************************)
dict == <<>>

Put(d, k, v) == [x \in DOMAIN d \cup {k} |-> IF x = k THEN v ELSE d[x]]

Store(t, f, r, d) == [topics |-> t, figures |-> f, references |-> r, dois |-> d]

\* What a call leaves behind: the store, how it ended (returned a value or
\* raised), the warnings it logged and the lookups it sent to the service.
Returned(S, value) ==
    [S |-> S, outcome |-> "return", value |-> value, exc |-> "none",
     warnings |-> 0, requests |-> <<>>, answers |-> <<>>]

Raised(S, exc) ==
    [S |-> S, outcome |-> "raise", value |-> None, exc |-> exc,
     warnings |-> 0, requests |-> <<>>, answers |-> <<>>]

\* assert_topic creating the note list but not the figure list
assert_topic_notes_only(S, topic) ==
    IF topic \notin DOMAIN S.topics
    THEN [S EXCEPT !.topics = Put(@, topic, <<>>)]
    ELSE S

\* assert_topic starting the topic afresh on every call
assert_topic_resets(S, topic) ==
    [S EXCEPT !.topics = Put(@, topic, <<>>), !.figures = Put(@, topic, <<>>)]

\* Magazine.assert_topic, lines 71-73
assert_topic(S, topic) ==
    IF topic \notin DOMAIN S.topics
    THEN [S EXCEPT !.topics = Put(@, topic, <<>>), !.figures = Put(@, topic, <<>>)]
    ELSE S

\* the text formatted even when no values are given
rendered_always(message, values) == Format(message, ReplaceNone(values))

\* The text report() stores for a text message, lines 99-102
rendered(message, values) ==
    IF values # <<>> THEN Format(message, ReplaceNone(values)) ELSE Ok(message)

\* report putting a new note in front of the topic's list
report_in_front(S, topic, message, values) ==
    LET S1 == assert_topic(S, topic)
        text == rendered(message.s, values)
    IN IF IsStr(message) /\ text.ok
       THEN Returned([S1 EXCEPT !.topics[topic] = <<text.s>> \o @], None)
       ELSE Raised(S1, "TypeError")

\* report keeping a message of any other type as a note
report_noting_anything(S, topic, message, values) ==
    LET S1 == assert_topic(S, topic)
    IN IF IsStr(message) THEN
           LET text == rendered(message.s, values)
           IN IF text.ok
              THEN Returned([S1 EXCEPT !.topics[topic] = Append(@, text.s)], None)
              ELSE Raised(S1, text.exc)
       ELSE IF IsBytesIO(message) THEN
           IF topic \in DOMAIN S1.figures
           THEN Returned([S1 EXCEPT !.figures[topic] = Append(@, message)], None)
           ELSE Raised(S1, "KeyError")
       ELSE [Returned([S1 EXCEPT !.topics[topic] = Append(@, <<"7">>)], None)
                EXCEPT !.warnings = 1]

\* Magazine.report, lines 95-111
report(S, topic, message, values) ==
    LET S1 == assert_topic(S, topic)
    IN IF IsStr(message) THEN
           LET text == rendered(message.s, values)
           IN IF text.ok
              THEN Returned([S1 EXCEPT !.topics[topic] = Append(@, text.s)], None)
              ELSE Raised(S1, text.exc)
       ELSE IF IsBytesIO(message) THEN
           IF topic \in DOMAIN S1.figures
           THEN Returned([S1 EXCEPT !.figures[topic] = Append(@, message)], None)
           ELSE Raised(S1, "KeyError")
       ELSE [Returned(S1, None) EXCEPT !.warnings = 1]

\* Magazine.cite, lines 130-136
RECURSIVE cite(_, _)
cite(S, refs) ==
    IF refs = <<>> THEN Returned(S, None)
    ELSE IF IsDoi(Head(refs))
         THEN cite([S EXCEPT !.dois = Append(@, Head(refs))], Tail(refs))
         ELSE cite([S EXCEPT !.references = Append(@, Head(refs))], Tail(refs))

\* Magazine.post, lines 159-164: the loop with its accumulator `text`
RECURSIVE post_loop(_, _, _)
post_loop(S, ts, text) ==
    IF ts = <<>> THEN Returned(S, Join(<<" ">>, text))
    ELSE LET S1 == assert_topic(S, Head(ts))
         IN post_loop(S1, Tail(ts), Append(text, Join(<<" ">>, S1.topics[Head(ts)])))

post(S, ts) == post_loop(S, ts, <<>>)

\* figure putting each further topic's figures in front
RECURSIVE figure_loop_in_front(_, _, _)
figure_loop_in_front(S, ts, figs) ==
    IF ts = <<>> THEN Returned(S, figs)
    ELSE LET S1 == assert_topic(S, Head(ts))
         IN figure_loop_in_front(S1, Tail(ts), S1.figures[Head(ts)] \o figs)

\* Magazine.figure, lines 188-194: the loop with its accumulator `figures`
RECURSIVE figure_loop(_, _, _)
figure_loop(S, ts, figs) ==
    IF ts = <<>> THEN Returned(S, figs)
    ELSE LET S1 == assert_topic(S, Head(ts))
         IN IF Head(ts) \in DOMAIN S1.figures
            THEN figure_loop(S1, Tail(ts), figs \o S1.figures[Head(ts)])
            ELSE Raised(S1, "KeyError")

figure(S, ts) == figure_loop(S, ts, <<>>)

\* clean forgetting the identifiers
clean_keeps_dois(S) == Returned(Store(dict, dict, <<>>, S.dois), None)

\* Magazine.clean, lines 235-239
clean(S) == Returned(Store(dict, dict, <<>>, <<>>), None)

(***************************************************************************)
(* The bibliographic service called on line 221.  It is not part of the    *)
(* repository: a lookup either fails with the library's exception or       *)
(* answers every identifier with a citation text or None, in the shapes    *)
(* lines 222-224 handle: a list with one entry per identifier, or the bare *)
(* text when a single identifier was asked for.  The same identifier is    *)
(* always answered with the same text.                                     *)
(***************************************************************************)
D1 == <<"1", "0", ".", "1", "2", "3", "4", "/", "a">>
D2 == <<"1", "0", ".", "5", "5", "5", "5", "5">>

Crossref(id) ==
    IF id = D1 THEN StrVal(<<"E", " ", "\n">>) ELSE None

Failure == [t |-> "error", s |-> <<>>, l |-> <<>>]
BareText(s) == [t |-> "str", s |-> s, l |-> <<>>]
ListOf(l) == [t |-> "list", s |-> <<>>, l |-> l]

Replies(ids) ==
    {Failure, ListOf([i \in DOMAIN ids |-> Crossref(ids[i])])}
        \cup IF Len(ids) = 1 /\ Crossref(ids[1]) # None
             THEN {BareText(Crossref(ids[1]).s)}
             ELSE {}

\* list(l): the duplicates kept
OrderingsWithDuplicates(l) == {l}

\* list(set(l)), line 217: the distinct elements, in an order the hash
\* seed of the run decides.
Orderings(l) ==
    {p \in [1..Cardinality(Range(l)) -> Range(l)] :
        \A i, j \in DOMAIN p : i # j => p[i] # p[j]}

\* [ref.rstrip() for ref in reflist2 if ref is not None], line 224
RECURSIVE StripAll(_)
StripAll(l) ==
    IF l = <<>> THEN <<>>
    ELSE IF Head(l) = None THEN StripAll(Tail(l))
    ELSE <<RStrip(Head(l).s)>> \o StripAll(Tail(l))

\* collect_references asking the service even without identifiers
collect_references_always(S, ids, reply) ==
    LET S1 == [S EXCEPT !.dois = ids]
    IN IF reply = Failure
       THEN [Raised(S1, "HTTPError") EXCEPT !.requests = <<ids>>,
                                            !.answers = <<reply>>]
       ELSE LET reflist2 == IF reply.t = "str" THEN <<StrVal(reply.s)>> ELSE reply.l
                reflist == Sort(S1.references \o StripAll(reflist2))
            IN [Returned([S1 EXCEPT !.references = reflist], reflist)
                    EXCEPT !.requests = <<ids>>, !.answers = <<reply>>]

\* collect_references taking a failed lookup for one without results
collect_references_swallowing(S, ids, reply) ==
    IF Len(S.dois) > 0 THEN
        LET S1 == [S EXCEPT !.dois = ids]
            reflist2 == IF reply = Failure THEN <<>>
                        ELSE IF reply.t = "str" THEN <<StrVal(reply.s)>> ELSE reply.l
            reflist == Sort(S1.references \o StripAll(reflist2))
        IN [Returned([S1 EXCEPT !.references = reflist], reflist)
                EXCEPT !.requests = <<ids>>, !.answers = <<reply>>]
    ELSE LET reflist == Sort(S.references)
         IN Returned([S EXCEPT !.references = reflist], reflist)

\* Magazine.collect_references, lines 213-228.  reflist is the list object
\* Magazine.references itself, so += and sort() act on the stored list.
collect_references(S, ids, reply) ==
    IF Len(S.dois) > 0 THEN
        LET S1 == [S EXCEPT !.dois = ids]
        IN IF reply = Failure
           THEN [Raised(S1, "HTTPError") EXCEPT !.requests = <<ids>>,
                                                !.answers = <<reply>>]
           ELSE LET reflist2 == IF reply.t = "str" THEN <<StrVal(reply.s)>> ELSE reply.l
                    reflist == Sort(S1.references \o StripAll(reflist2))
                IN [Returned([S1 EXCEPT !.references = reflist], reflist)
                        EXCEPT !.requests = <<ids>>, !.answers = <<reply>>]
    ELSE LET reflist == Sort(S.references)
         IN Returned([S EXCEPT !.references = reflist], reflist)

(***************************************************************************)
(* The reporting decorator, lines 243-316.                                 *)
(*                                                                         *)
(* A decorated function is a record: its name, the topic its reporting     *)
(* instance was built with, what its body does when it runs (returns       *)
(* `result` or raises `exc`) and its documentation, given by the two       *)
(* sections the patterns of lines 291 and 303 capture.                     *)
(***************************************************************************)
Chars(str) ==
    CASE str = "function" -> <<"f", "u", "n", "c", "t", "i", "o", "n">>
      [] str = "args" -> <<"a", "r", "g", "s">>
      [] str = "return" -> <<"r", "e", "t", "u", "r", "n">>
      [] str = "c" -> <<"c">>
      [] str = "five" -> <<"f", "i", "v", "e">>
      [] str = "boom" -> <<"b", "o", "o", "m">>
      [] str = "show" -> <<"s", "h", "o", "w">>

\* str(args) of a tuple of ints
RECURSIVE ItemsStr(_)
ItemsStr(items) ==
    IF items = <<>> THEN <<>>
    ELSE IF Len(items) = 1 THEN IntToStr(items[1].i)
    ELSE IntToStr(items[1].i) \o <<",", " ">> \o ItemsStr(Tail(items))

TupleVal(items) ==
    [t |-> "tuple", i |-> Len(items),
     s |-> <<"(">> \o ItemsStr(items) \o (IF Len(items) = 1 THEN <<",">> ELSE <<>>) \o <<")">>]

\* A local variable that has not been assigned yet.
Unbound == [t |-> "unbound", i |-> 0, s |-> <<>>]

\* SafeDict.__getitem__ with __missing__, lines 23-24
SafeGet(P, key) ==
    IF key \in DOMAIN P THEN P[key] ELSE StrVal(<<"{">> \o key \o <<"}">>)

\* report_text.format_map(self.parameters), line 295
RECURSIVE format_map(_, _)
format_map(s, P) ==
    IF s = <<>> THEN Ok(<<>>)
    ELSE IF Head(s) = "{" THEN
        IF Len(s) >= 2 /\ s[2] = "{"
        THEN Then(<<"{">>, format_map(SubSeq(s, 3, Len(s)), P))
        ELSE LET close == IndexOf("}", s)
                 name == SubSeq(s, 2, close - 1)
             IN IF close = 0 \/ name = <<>> THEN Raise("ValueError")
                ELSE LET one == FormatValue(SafeGet(P, name), <<>>)
                     IN Then(one.s, format_map(SubSeq(s, close + 1, Len(s)), P))
    ELSE IF Head(s) = "}" THEN
        IF Len(s) >= 2 /\ s[2] = "}"
        THEN Then(<<"}">>, format_map(SubSeq(s, 3, Len(s)), P))
        ELSE Raise("ValueError")
    ELSE Then(<<Head(s)>>, format_map(Tail(s), P))

\* str.split("\n"), line 309
RECURSIVE SplitLines(_)
SplitLines(s) ==
    LET nl == IndexOf("\n", s)
    IN IF nl = 0 THEN <<s>>
       ELSE <<SubSeq(s, 1, nl - 1)>> \o SplitLines(SubSeq(s, nl + 1, Len(s)))

\* Number of leading blanks of a line
RECURSIVE Indent(_)
Indent(line) ==
    IF line # <<>> /\ Head(line) = " " THEN 1 + Indent(Tail(line)) ELSE 0

\* textwrap.dedent, lines 296 and 307: blank lines become empty, the others
\* lose the indentation they all share.
dedent(s) ==
    LET lines == SplitLines(s)
        solid == {i \in DOMAIN lines : Indent(lines[i]) < Len(lines[i])}
        margin == IF solid = {} THEN 0
                  ELSE CHOOSE m \in {Indent(lines[i]) : i \in solid} :
                           \A i \in solid : m <= Indent(lines[i])
    IN Join(<<"\n">>, [i \in DOMAIN lines |->
                          IF i \in solid
                          THEN SubSeq(lines[i], margin + 1, Len(lines[i]))
                          ELSE <<>>])

\* re.sub(r"(?<!\n)\n(?!\n)", " ", report_text), line 298
SingleNewlines(s) ==
    [i \in DOMAIN s |->
        IF /\ s[i] = "\n"
           /\ (i = 1 \/ s[i - 1] # "\n")
           /\ (i = Len(s) \/ s[i + 1] # "\n")
        THEN " " ELSE s[i]]

NoSection == [found |-> FALSE, text |-> <<>>]
Section(text) == [found |-> TRUE, text |-> text]
NoDoc == [given |-> FALSE, report |-> NoSection, references |-> NoSection]
Doc(rep, refs) == [given |-> TRUE, report |-> rep, references |-> refs]

\* the Report section, lines 291-299: text is the section after format_map
parse_report(S, topic, text) ==
    IF text.ok
    THEN report(S, topic, StrVal(SingleNewlines(dedent(text.s))), <<>>)
    ELSE Raised(S, text.exc)

\* the References section, lines 303-310: r is how the Report part ended
parse_references(r, doc) ==
    IF r.outcome = "raise" \/ ~doc.references.found THEN r
    ELSE cite(r.S, SplitLines(dedent(doc.references.text)))

\* reporting._parse_docstring, lines 288-316
parse_docstring(S, P, topic, doc) ==
    IF doc.given
    THEN parse_references(IF doc.report.found
                          THEN parse_report(S, topic, format_map(doc.report.text, P))
                          ELSE Returned(S, None),
                          doc)
    ELSE [Returned(S, None) EXCEPT !.warnings = 1]

Remove(d, k) == [x \in DOMAIN d \ {k} |-> d[x]]

\* for kw in kwargs: self.parameters[kw] = kwargs[kw], lines 269-270
Update(P, kwargs) ==
    [k \in DOMAIN P \cup DOMAIN kwargs |-> IF k \in DOMAIN kwargs THEN kwargs[k] ELSE P[k]]

Ended(S, G, P, r, n) ==
    [S |-> S, G |-> G, P |-> P, outcome |-> r.outcome, value |-> r.value,
     exc |-> r.exc, warnings |-> r.warnings, invoked |-> n]

\* lines 279-281: the wrapper after _parse_docstring ended as `parsed`
Parsed(G, P, parsed, result) ==
    IF parsed.outcome = "raise"
    THEN Ended(parsed.S, G, P, parsed, 1)
    ELSE Ended(parsed.S, G, P,
               [Returned(parsed.S, result) EXCEPT !.warnings = parsed.warnings], 1)

\* reporting.__call__.wrapper, lines 258-281.  `result` is a local of the
\* wrapper that is first assigned on line 274.
wrapper(S, G, P, f, args, kwargs) ==
    LET result == Unbound
        G1 == Put(G, "_report", f.name)
        P1 == Put(Put(P, Chars("function"), StrVal(Chars(f.name))),
                  Chars("args"), TupleVal(args))
    IN IF result = Unbound
       THEN Ended(S, G1, P1, Raised(S, "UnboundLocalError"), 0)
       ELSE LET P2 == Update(Put(P1, Chars("return"), result), kwargs)
                G2 == Remove(G1, "_report")
            IN IF f.raises
               THEN Ended(S, G2, P2, Raised(S, f.exc), 1)
               ELSE Parsed(G2, P2, parse_docstring(S, P2, f.topic, f.doc), f.result)

(***************************************************************************)
(* The inputs the calls are drawn from.                                    *)
(***************************************************************************)
Topics == {"t", "u"}

\* messages: "a", "v{}", "{:d}", two figure handles and an int
TextA == StrVal(<<"a">>)
TextField == StrVal(<<"v", "{", "}">>)
Messages == {TextA, TextField}
TextInt == StrVal(<<"{", ":", "d", "}">>)
FewMessages == {TextField, BytesIO(1), IntVal(7)}
FormatMessages == {TextField, TextInt}
FigureMessages == {TextA, BytesIO(1), BytesIO(2)}

ValueLists == {<<>>, <<None>>}
FewValueLists == {<<None>>}
FormatValueLists == {<<None>>, <<IntVal(42)>>, <<IntVal(42), None>>}

TopicLists == {<<>>, <<"t">>, <<"t", "u">>, <<"u", "t">>}
FewTopicLists == {<<"u", "t">>}

\* citations: two identifiers, two literal texts, and a text that misses
\* the identifier pattern by one digit
RefZ == <<"Z">>
RefA == <<"A", " ", "b">>
Ref3 == <<"1", "0", ".", "1", "2", "3">>
RefLists ==
    {<<>>, <<D1>>, <<D2>>, <<RefZ>>, <<RefA>>, <<Ref3>>,
     <<D1, D1>>, <<D2, D1>>, <<RefZ, D1>>, <<D1, RefA>>, <<RefA, Ref3>>}
FewRefLists == {<<RefZ, D1>>}

\* decorated functions: `five` returns 5 and documents a Report and a
\* References section, `boom` raises and documents a Report section,
\* `show` returns 5 and reports its keyword argument c
Five ==
    [name |-> "five", topic |-> "t", raises |-> FALSE, exc |-> "none",
     result |-> IntVal(5),
     doc |-> Doc(Section(<<"R", "e", "s", "u", "l", "t", ":", " ",
                           "{", "r", "e", "t", "u", "r", "n", "}", ".">>),
                 Section(RefZ))]
Boom ==
    [name |-> "boom", topic |-> "u", raises |-> TRUE, exc |-> "ZeroDivisionError",
     result |-> None,
     doc |-> Doc(Section(<<"c", "=", "{", "c", "}">>), NoSection)]
Show ==
    [name |-> "show", topic |-> "u", raises |-> FALSE, exc |-> "none",
     result |-> IntVal(5),
     doc |-> Doc(Section(<<"c", "=", "{", "c", "}">>), NoSection)]
Functions == {Five, Boom, Show}
Fn(name) == CHOOSE f \in Functions : f.name = name

ArgLists == {<<>>, <<IntVal(2)>>}
KwargDicts == {dict, [k \in {Chars("c")} |-> IntVal(4)]}

(***************************************************************************)
(* The state machine.                                                      *)
(***************************************************************************)
Current == Store(topics, figures, references, dois)

Ret(op, args, r) ==
    [op |-> op, args |-> args, outcome |-> r.outcome, value |-> r.value,
     exc |-> r.exc, warnings |-> r.warnings]

\* The model follows a call only while the collections stay within the bounds.
Bounded(S) ==
    /\ \A t \in DOMAIN S.topics : Len(S.topics[t]) <= MaxNotes
    /\ \A t \in DOMAIN S.figures : Len(S.figures[t]) <= MaxFigs
    /\ Len(S.references) <= MaxRefs
    /\ Len(S.dois) <= MaxDois

Do(op, args, r) ==
    /\ Bounded(r.S)
    /\ topics' = r.S.topics
    /\ figures' = r.S.figures
    /\ references' = r.S.references
    /\ dois' = r.S.dois
    /\ ret' = Ret(op, args, r)
    /\ requests' = r.requests
    /\ answers' = r.answers
    /\ UNCHANGED <<parameters, func_globals, invoked, supplied>>

Init ==
    /\ topics = dict
    /\ figures = dict
    /\ references = <<>>
    /\ dois = <<>>
    /\ parameters = [f \in {"five", "boom", "show"} |-> dict]
    /\ func_globals = dict
    /\ ret = Ret("import", <<>>, Returned(Current, None))
    /\ requests = <<>>
    /\ answers = <<>>
    /\ invoked = 0
    /\ reported = <<>>
    /\ cited = dict
    /\ supplied = [f \in {"five", "boom", "show"} |-> {}]

\* The tally `cited` after the strings of refs were cited.
RECURSIVE Count(_, _)
Count(tally, refs) ==
    IF refs = <<>> THEN tally
    ELSE Count(Put(tally, Head(refs),
                   IF Head(refs) \notin DOMAIN tally THEN 1
                   ELSE IF Head(refs) \in {D1, D2} THEN 2
                   ELSE tally[Head(refs)] + 1),
               Tail(refs))

AssertTopic ==
    \E t \in Topics :
        /\ Do("assert_topic", <<t>>, Returned(assert_topic(Current, t), None))
        /\ UNCHANGED <<reported, cited>>

Report(messages, valueLists) ==
    \E t \in Topics, m \in messages, v \in valueLists :
        LET r == report(Current, t, m, v)
        IN /\ Do("report", <<t, m, v>>, r)
           /\ reported' = IF IsStr(m) /\ r.outcome = "return"
                          THEN Append(reported, [topic |-> t, note |-> rendered(m.s, v).s])
                          ELSE reported
           /\ UNCHANGED cited

Post(topicLists) ==
    \E ts \in topicLists :
        /\ Do("post", ts, post(Current, ts))
        /\ UNCHANGED <<reported, cited>>

Figure(topicLists) ==
    \E ts \in topicLists :
        /\ Do("figure", ts, figure(Current, ts))
        /\ UNCHANGED <<reported, cited>>

Cite(refLists) ==
    \E refs \in refLists :
        /\ Do("cite", refs, cite(Current, refs))
        /\ cited' = Count(cited, refs)
        /\ UNCHANGED reported

CollectReferences ==
    \E ids \in Orderings(dois) :
        \E reply \in Replies(ids) :
            /\ Do("collect_references", <<>>, collect_references(Current, ids, reply))
            /\ UNCHANGED <<reported, cited>>

Clean ==
    /\ Do("clean", <<>>, clean(Current))
    /\ reported' = <<>>
    /\ cited' = dict

Next ==
    \/ AssertTopic
    \/ Report(FewMessages, FewValueLists)
    \/ Post(FewTopicLists)
    \/ Figure(FewTopicLists)
    \/ Cite(FewRefLists)
    \/ CollectReferences
    \/ Clean

Spec == Init /\ [][Next]_vars

\* The text notes alone, with every text message and value list.
NextNotes ==
    \/ AssertTopic
    \/ Report(Messages, ValueLists)
    \/ Post(TopicLists)
    \/ Clean

SpecNotes == Init /\ [][NextNotes]_vars

\* Templates formatted with values, among them None.
NextFormat ==
    \/ Report(FormatMessages, FormatValueLists)
    \/ Clean

SpecFormat == Init /\ [][NextFormat]_vars

\* Figures and notes reported and the figures read back.
NextFigures ==
    \/ Report(FigureMessages, ValueLists)
    \/ Figure(TopicLists)
    \/ Clean

SpecFigures == Init /\ [][NextFigures]_vars

\* The citations alone, with every reference list.
NextCite ==
    \/ Cite(RefLists)
    \/ CollectReferences
    \/ Clean

SpecCite == Init /\ [][NextCite]_vars

\* A call of a decorated function, that is of its wrapper.
Call ==
    \E f \in Functions, args \in ArgLists, kwargs \in KwargDicts :
        \E w \in {wrapper(Current, func_globals, parameters[f.name], f, args, kwargs)} :
        LET noted == /\ f.topic \in DOMAIN w.S.topics
                     /\ Len(w.S.topics[f.topic]) >
                            (IF f.topic \in DOMAIN topics THEN Len(topics[f.topic]) ELSE 0)
        IN /\ Bounded(w.S)
           /\ topics' = w.S.topics
           /\ figures' = w.S.figures
           /\ references' = w.S.references
           /\ dois' = w.S.dois
           /\ parameters' = [parameters EXCEPT ![f.name] = w.P]
           /\ func_globals' = w.G
           /\ invoked' = w.invoked
           /\ ret' = Ret("wrapper", <<f.name, args, kwargs>>, w)
           /\ requests' = <<>>
           /\ answers' = <<>>
           /\ supplied' = [supplied EXCEPT ![f.name] = @ \cup DOMAIN kwargs]
           /\ reported' = IF noted
                          THEN Append(reported, [topic |-> f.topic,
                                                 note |-> Last(w.S.topics[f.topic])])
                          ELSE reported
           /\ cited' = IF Len(w.S.references) + Len(w.S.dois) > Len(references) + Len(dois)
                       THEN Count(cited, SplitLines(dedent(f.doc.references.text)))
                       ELSE cited

\* Decorated functions called between direct uses of the store.
NextWrap ==
    \/ Call
    \/ Report({TextA}, {<<>>})
    \/ Cite({<<RefZ>>})
    \/ Clean

SpecWrap == Init /\ [][NextWrap]_vars

(***************************************************************************)
(* Properties.                                                             *)
(***************************************************************************)
Identifiers == {D1, D2}

NotesBefore(t) == IF t \in DOMAIN topics THEN topics[t] ELSE <<>>

\* The notes reported to topic t since the last clean, oldest first.
RECURSIVE NotesIn(_, _)
NotesIn(history, t) ==
    IF history = <<>> THEN <<>>
    ELSE IF Head(history).topic = t
         THEN <<Head(history).note>> \o NotesIn(Tail(history), t)
         ELSE NotesIn(Tail(history), t)

NoDuplicates(l) == \A i, j \in DOMAIN l : i # j => l[i] # l[j]

Keep(l, set) == SelectSeq(l, LAMBDA x : x \in set)
Drop(l, set) == SelectSeq(l, LAMBDA x : x \notin set)

\* C1: topics and figures have the same key set in every reachable state,
\* and a post or figure call leaves every topic it was given as a key of both
\* maps, with empty lists when the topic was unknown before the call.
C1_TopicKeysMatch ==
    /\ DOMAIN topics = DOMAIN figures
    /\ [][/\ DOMAIN topics' = DOMAIN figures'
          /\ ret'.op \in {"post", "figure"} =>
                \A t \in Range(ret'.args) :
                    /\ t \in DOMAIN topics' \cap DOMAIN figures'
                    /\ t \notin DOMAIN topics =>
                           topics'[t] = <<>> /\ figures'[t] = <<>>]_vars

\* a figure call has created the unknown topic u next to a topic with a note
C1_Witness ==
    /\ ret.op = "figure"
    /\ ret.args = <<"u", "t">>
    /\ DOMAIN topics = {"t", "u"}
    /\ DOMAIN figures = {"t", "u"}
    /\ topics["t"] # <<>>
    /\ topics["u"] = <<>>
    /\ figures["u"] = <<>>
    /\ NotesIn(reported, "u") = <<>>

\* C2: post returns, for each topic given and in the order given, the notes
\* reported to it since the last clean, oldest first and joined by one space,
\* and joins these per-topic texts by one space; a topic without notes
\* gives the empty text.
C2_PostJoinsInOrder ==
    (ret.op = "post" /\ ret.outcome = "return") =>
        ret.value = Join(<<" ">>, [i \in DOMAIN ret.args |->
                                      Join(<<" ">>, NotesIn(reported, ret.args[i]))])

\* post("t", "u") after "a" and "vnan" went to t with a report to u in between
C2_Witness ==
    /\ ret.op = "post"
    /\ ret.args = <<"t", "u">>
    /\ Len(reported) = 3
    /\ reported[1] = [topic |-> "t", note |-> <<"a">>]
    /\ reported[2].topic = "u"
    /\ reported[3] = [topic |-> "t", note |-> <<"v", "n", "a", "n">>]
    /\ ret.value = <<"a", " ", "v", "n", "a", "n", " ">> \o reported[2].note

\* C3: a collect_references call that follows directly on one that looked
\* identifiers up returns the same list as that one did.
C3_CollectIdempotent ==
    [][(/\ ret.op = "collect_references"
        /\ ret.outcome = "return"
        /\ requests # <<>>
        /\ ret'.op = "collect_references"
        /\ ret'.outcome = "return") => ret'.value = ret.value]_vars

\* C4: a call of the decorated function `five`, whose Report section is
\* "Result: {return}." and whose body returns 5, appends exactly the one
\* note "Result: 5." to its topic.
C4_ReportNoteAppended ==
    [][(ret'.op = "wrapper" /\ ret'.args[1] = "five") =>
          /\ Five.topic \in DOMAIN topics'
          /\ topics'[Five.topic] =
                 Append(NotesBefore(Five.topic),
                        <<"R", "e", "s", "u", "l", "t", ":", " ", "5", ".">>)]_vars

\* C5: when the body of the decorated function returns normally, the wrapper
\* has run it exactly once and returns the body's result.
C5_WrapperReturnsResult ==
    (ret.op = "wrapper" /\ ~Fn(ret.args[1]).raises) =>
        /\ invoked = 1
        /\ ret.outcome = "return"
        /\ ret.value = Fn(ret.args[1]).result

\* C6: a call of a decorated function whose body raises ends with that
\* exception and leaves topics, figures, references and dois as they were.
C6_BodyExceptionPropagates ==
    [][(ret'.op = "wrapper" /\ Fn(ret'.args[1]).raises) =>
          /\ ret'.outcome = "raise"
          /\ ret'.exc = Fn(ret'.args[1]).exc
          /\ store' = store]_vars

\* C7: once a wrapper call has ended, by return or by exception, the
\* globals of the function's module hold no `_report` entry.
C7_ReportHelperRemoved ==
    ret.op = "wrapper" => "_report" \notin DOMAIN func_globals

\* C8: cite appends the strings that match the identifier pattern to dois
\* and all the others to references, each in the order given, so that the
\* two lists grow by len(refs) together; topics and figures stay as they are.
C8_CiteRoutesEachRef ==
    [][ret'.op = "cite" =>
          /\ dois' = dois \o Keep(ret'.args, Identifiers)
          /\ references' = references \o Drop(ret'.args, Identifiers)
          /\ Len(dois') + Len(references') =
                 Len(dois) + Len(references) + Len(ret'.args)
          /\ topics' = topics
          /\ figures' = figures]_vars

\* cite("A b", "10.123") has put both texts on the reference list
C8_Witness ==
    /\ ret.op = "cite"
    /\ ret.args = <<RefA, Ref3>>
    /\ Len(references) >= 2
    /\ SubSeq(references, Len(references) - 1, Len(references)) = <<RefA, Ref3>>
    /\ D1 \in Range(dois)

\* C9: a collect_references call sends at most one lookup, and exactly one
\* when an identifier was cited since the last clean; the lookup names every
\* cited identifier once, and after the call dois is that duplicate-free list.
C9_OneLookupOfDistinctIds ==
    ret.op = "collect_references" =>
        LET citedIds == DOMAIN cited \cap Identifiers
        IN /\ Len(requests) = (IF citedIds = {} THEN 0 ELSE 1)
           /\ requests # <<>> =>
                  /\ NoDuplicates(requests[1])
                  /\ Range(requests[1]) = citedIds
                  /\ dois = requests[1]
           /\ NoDuplicates(dois)
           /\ Range(dois) = citedIds

\* one lookup of two identifiers, one of which was cited repeatedly
C9_Witness ==
    /\ ret.op = "collect_references"
    /\ Len(requests) = 1
    /\ Len(requests[1]) = 2
    /\ D1 \in DOMAIN cited
    /\ cited[D1] = 2
    /\ Len(dois) = 2

\* C10: after clean the four collections are empty, a further clean changes
\* nothing, and post of any single topic returns the empty text.
C10_CleanResetsAll ==
    ret.op = "clean" =>
        /\ topics = dict
        /\ figures = dict
        /\ references = <<>>
        /\ dois = <<>>
        /\ clean(Current).S = Current
        /\ \A t \in Topics : post(Current, <<t>>).value = <<>>

\* the call that has just returned is clean
C10_Witness ==
    /\ ret.op = "clean"
    /\ ret.outcome = "return"
    /\ DOMAIN topics = {}
    /\ Len(references) + Len(dois) = 0

\* How often x occurs in the list l.
CountIn(l, x) == Cardinality({i \in DOMAIN l : l[i] = x})

\* The list l is in ascending code point order.
IsSorted(l) ==
    \A i \in 1..(Len(l) - 1) : l[i] = l[i + 1] \/ StrLess(l[i], l[i + 1])

\* The cited identifiers the service resolves, and what a text is expected
\* to count in the bibliography: once per literal citation, plus once per
\* distinct cited identifier that resolves to it.
ResolvedIds == {id \in DOMAIN cited \cap Identifiers : Crossref(id) # None}
Literals == DOMAIN cited \ Identifiers
ExpectedCount(x) ==
    (IF x \in Literals THEN cited[x] ELSE 0)
    + Cardinality({id \in ResolvedIds : RStrip(Crossref(id).s) = x})

\* C11: the list collect_references returns is sorted and consists of exactly
\* the literal references cited since the last clean plus, for each distinct
\* cited identifier with a non-null lookup result, that result stripped of
\* trailing whitespace.  Violated: a second collect_references merges the
\* resolved texts again into the list the first one already extended.
C11_CollectReturnsCitedSorted ==
    (ret.op = "collect_references" /\ ret.outcome = "return") =>
        /\ IsSorted(ret.value)
        /\ \A x \in Range(ret.value) \cup Literals
                    \cup {RStrip(Crossref(id).s) : id \in ResolvedIds} :
               CountIn(ret.value, x) = ExpectedCount(x)

\* C12: report with a message that is neither text nor a figure handle does
\* not raise, logs one warning and appends nothing: every existing topic
\* keeps its notes and figures, a topic the call creates is empty, and the
\* references and identifiers stay as they were.
C12_ReportOtherTypeWarns ==
    [][(/\ ret'.op = "report"
        /\ ~IsStr(ret'.args[2])
        /\ ~IsBytesIO(ret'.args[2])) =>
          /\ ret'.outcome = "return"
          /\ ret'.warnings = 1
          /\ \A t \in DOMAIN topics :
                 t \in DOMAIN topics' /\ topics'[t] = topics[t]
          /\ \A t \in DOMAIN figures :
                 t \in DOMAIN figures' /\ figures'[t] = figures[t]
          /\ \A t \in DOMAIN topics' \ DOMAIN topics : topics'[t] = <<>>
          /\ \A t \in DOMAIN figures' \ DOMAIN figures : figures'[t] = <<>>
          /\ references' = references
          /\ dois' = dois]_vars

C12_Witness ==
    /\ ret.op = "report"
    /\ ret.args[2] = IntVal(7)
    /\ ret.outcome = "return"
    /\ ret.warnings = 1
    /\ ret.args[1] \in DOMAIN topics
    /\ topics[ret.args[1]] # <<>>
    /\ figures[ret.args[1]] # <<>>
    /\ Len(references) + Len(dois) > 0

\* The values of a report call with nan in the place of every None.
Substituted(values) ==
    [i \in DOMAIN values |-> IF values[i] = None THEN NaN ELSE values[i]]

\* C13 as stated: report with a text message and a None among the values
\* never raises and appends exactly one note.  Violated: "{:d}" rejects
\* the nan that replaced the None.
C13_NoneNeverRaises ==
    [][(/\ ret'.op = "report"
        /\ IsStr(ret'.args[2])
        /\ None \in Range(ret'.args[3])) =>
          /\ ret'.outcome = "return"
          /\ ret'.args[1] \in DOMAIN topics'
          /\ Len(topics'[ret'.args[1]]) = Len(NotesBefore(ret'.args[1])) + 1]_vars

\* C13 (amended): report with a text message and a None among the values
\* formats the message with nan in the place of every None.  Where that
\* formatting succeeds the call returns and appends the formatted text as
\* one note ("v{}" with None gives "vnan"); where the format rejects the
\* values ("{:d}" with nan) the call raises that error and appends nothing.
C13_NoneFormattedAsNan ==
    [][(/\ ret'.op = "report"
        /\ IsStr(ret'.args[2])
        /\ None \in Range(ret'.args[3])) =>
          LET t == ret'.args[1]
              m == ret'.args[2]
              v == ret'.args[3]
              text == Format(m.s, Substituted(v))
          IN /\ t \in DOMAIN topics'
             /\ text.ok =>
                    /\ ret'.outcome = "return"
                    /\ topics'[t] = Append(NotesBefore(t), text.s)
             /\ ~text.ok =>
                    /\ ret'.outcome = "raise"
                    /\ ret'.exc = text.exc
                    /\ topics'[t] = NotesBefore(t)
             /\ (m = TextField /\ v[1] = None) =>
                    /\ ret'.outcome = "return"
                    /\ Last(topics'[t]) = <<"v", "n", "a", "n">>
             /\ (m = TextInt /\ v[1] = None) =>
                    /\ ret'.outcome = "raise"
                    /\ ret'.exc = "ValueError"
             /\ \A u \in DOMAIN topics \ {t} : topics'[u] = topics[u]]_vars

C13_Witness ==
    /\ ret.op = "report"
    /\ ret.args[2] = TextField
    /\ ret.args[3] = <<None>>
    /\ ret.outcome = "return"
    /\ Len(topics[ret.args[1]]) = 2
    /\ Last(topics[ret.args[1]]) = <<"v", "n", "a", "n">>

\* C14: collect_references asks the service exactly when identifiers are
\* stored at the time of the call; with none stored it sends no lookup and
\* returns the literal references, sorted.
C14_LookupIffIdentifiers ==
    [][ret'.op = "collect_references" =>
          /\ requests' # <<>> <=> dois # <<>>
          /\ dois = <<>> =>
                 /\ ret'.outcome = "return"
                 /\ answers' = <<>>
                 /\ IsSorted(ret'.value)
                 /\ \A x \in Range(ret'.value) \cup Literals :
                        /\ x \in Literals
                        /\ CountIn(ret'.value, x) = cited[x]]_vars

C14_Witness ==
    /\ ret.op = "collect_references"
    /\ ret.outcome = "return"
    /\ requests = <<>>
    /\ dois = <<>>
    /\ ret.value = <<RefA, RefA, RefZ>>

\* C15: when the lookup fails inside collect_references the failure reaches
\* the caller as an error, the one the lookup raised, and is neither
\* swallowed nor turned into a normal return; the failed call has merged no
\* resolved text into the references.
C15_LookupFailurePropagates ==
    [][(ret'.op = "collect_references" /\ answers' = <<Failure>>) =>
          /\ ret'.outcome = "raise"
          /\ ret'.exc = "HTTPError"
          /\ ret'.value = None
          /\ requests' # <<>>
          /\ references' = references]_vars

C15_Witness ==
    /\ ret.op = "collect_references"
    /\ answers = <<Failure>>
    /\ ret.outcome = "raise"
    /\ requests # <<>>
    /\ D1 \in Range(requests[1])
    /\ references # <<>>
    /\ RStrip(Crossref(D1).s) \notin Range(references)

FiguresBefore(t) == IF t \in DOMAIN figures THEN figures[t] ELSE <<>>

\* The figures stored for the topics ts, topic after topic.
RECURSIVE FiguresOf(_)
FiguresOf(ts) ==
    IF ts = <<>> THEN <<>>
    ELSE FiguresBefore(Head(ts)) \o FiguresOf(Tail(ts))

\* C16: report with a figure handle appends the handle to the figure list
\* of the topic and changes nothing else, whatever values are passed;
\* figure(t1, ..., tn) returns one flat sequence, the topics in argument
\* order and the figures of each topic in the order they were reported.
\* (The subscript changes exactly when vars does; it names the operation
\* and its arguments first.)
C16_FiguresInOrder ==
    [][/\ (ret'.op = "report" /\ IsBytesIO(ret'.args[2])) =>
              LET t == ret'.args[1]
              IN /\ ret'.outcome = "return"
                 /\ DOMAIN figures' = DOMAIN figures \cup {t}
                 /\ DOMAIN topics' = DOMAIN topics \cup {t}
                 /\ figures'[t] = Append(FiguresBefore(t), ret'.args[2])
                 /\ topics'[t] = NotesBefore(t)
                 /\ \A u \in DOMAIN figures \ {t} :
                        figures'[u] = figures[u] /\ topics'[u] = topics[u]
                 /\ references' = references
                 /\ dois' = dois
       /\ ret'.op = "figure" =>
              /\ ret'.outcome = "return"
              /\ ret'.value = FiguresOf(ret'.args)]_<<ret.op, ret.args, vars>>

C16_Witness ==
    /\ ret.op = "figure"
    /\ ret.args = <<"u", "t">>
    /\ ret.outcome = "return"
    /\ ret.value = <<BytesIO(2), BytesIO(1), BytesIO(2)>>
    /\ figures["t"] = <<BytesIO(1), BytesIO(2)>>
    /\ topics["t"] # <<>>

\* C17: the mapping the texts of a decorated function are filled from is
\* fresh for each call: when a call of `show` does not pass the keyword c
\* that an earlier call passed, its mapping has no key c and the note it
\* reports holds the placeholder verbatim, "c={c}".  Violated: the call ends
\* at its first read of `result`, before any text is filled or reported,
\* and the mapping is the one object all calls of the function share.
C17_MappingFreshPerCall ==
    [][(/\ ret'.op = "wrapper"
        /\ ret'.args[1] = "show"
        /\ Chars("c") \in supplied["show"]
        /\ Chars("c") \notin DOMAIN ret'.args[3]) =>
          /\ Chars("c") \notin DOMAIN parameters'["show"]
          /\ Show.topic \in DOMAIN topics'
          /\ topics'[Show.topic] =
                 Append(NotesBefore(Show.topic), <<"c", "=", "{", "c", "}">>)]_vars

\* What a call that only makes sure of the topics in `asked` may do to the
\* store: every list stored before is the same after, the topics asked for
\* and missing are added with an empty note list and an empty figure list,
\* and the references and identifiers are the same.
OnlyAddsEmpty(asked) ==
    /\ DOMAIN topics' = DOMAIN topics \cup asked
    /\ DOMAIN figures' = DOMAIN figures \cup asked
    /\ \A t \in DOMAIN topics : topics'[t] = topics[t]
    /\ \A t \in DOMAIN figures : figures'[t] = figures[t]
    /\ \A t \in asked \ DOMAIN topics : topics'[t] = <<>>
    /\ \A t \in asked \ DOMAIN figures : figures'[t] = <<>>
    /\ references' = references
    /\ dois' = dois

\* C18: post and figure change nothing that is stored and only add empty
\* lists for the topics they are asked for and do not know; assert_topic
\* does the same for its topic, so that it never empties an existing topic
\* and asserting a known topic again changes nothing.
\* (The subscript changes exactly when vars does; it names the operation
\* and its arguments first.)
C18_ReadsOnlyAddEmptyTopics ==
    [][/\ ret'.op \in {"post", "figure"} =>
              /\ ret'.outcome = "return"
              /\ OnlyAddsEmpty(Range(ret'.args))
       /\ ret'.op = "assert_topic" =>
              /\ ret'.outcome = "return"
              /\ OnlyAddsEmpty({ret'.args[1]})
              /\ ret'.args[1] \in DOMAIN topics =>
                     topics' = topics /\ figures' = figures]_<<ret.op, ret.args, vars>>

C18_Witness ==
    /\ ret.op = "post"
    /\ ret.args = <<"u", "t">>
    /\ ret.outcome = "return"
    /\ topics["t"] # <<>>
    /\ figures["t"] # <<>>
    /\ topics["u"] = <<>>
    /\ figures["u"] = <<>>
    /\ Len(references) > 0
    /\ Len(dois) > 0

\* C19: report(topic, message) with a text message and no values does not
\* raise and appends the message unchanged, the placeholders in it stored
\* as they are written; nothing else in the store changes.
C19_ReportWithoutValuesVerbatim ==
    [][(/\ ret'.op = "report"
        /\ IsStr(ret'.args[2])
        /\ ret'.args[3] = <<>>) =>
          LET t == ret'.args[1]
          IN /\ ret'.outcome = "return"
             /\ ret'.warnings = 0
             /\ DOMAIN topics' = DOMAIN topics \cup {t}
             /\ topics'[t] = Append(NotesBefore(t), ret'.args[2].s)
             /\ \A u \in DOMAIN topics \ {t} : topics'[u] = topics[u]
             /\ \A u \in DOMAIN figures : figures'[u] = figures[u]
             /\ references' = references
             /\ dois' = dois]_vars

C19_Witness ==
    /\ ret.op = "report"
    /\ ret.args = <<"t", TextField, <<>>>>
    /\ ret.outcome = "return"
    /\ topics["t"] = <<<<"a">>, <<"v", "{", "}">>>>

====
